---- MODULE Spec2Model ----
(***************************************************************************)
(* Mini-URL (src/main.py): the Flask handlers for registration, login,     *)
(* logout, the dashboard, URL submission and short-code redirection, over  *)
(* the User table and the URL mapping store.                               *)
(*                                                                         *)
(* Spec     : every handler is one atomic action (one request at a time).  *)
(* ConcSpec : register requests run concurrently, each as its three store  *)
(*            interactions (username pre-check, email pre-check, commit).  *)
(***************************************************************************)
EXTENDS Integers, Sequences, FiniteSets, TLC

VARIABLES users, session_user_id, url_store, reg, resp, registered

vars == <<users, session_user_id, url_store, reg, resp, registered>>

----------------------------------------------------------------------------
(* Bounds and inputs *)

\* number of distinct salts generate_password_hash may draw
NumSalts == 2

Salts == 1..NumSalts

\* concurrent register requests in flight
Requests == {"r1", "r2"}

\* "bob" is shorter than the username minimum
Usernames == {"anna", "ann@mail.io", "bob"}

\* "short" is shorter than the password minimum
Passwords == {"password1", "password2", "short"}

\* "a@b.c" is shorter than the email minimum
Emails == {"ann@mail.io", "bob@mail.io", "a@b.c"}

\* what a client may type in the login form's username field
Identifiers == Usernames \cup Emails

LongUrls == {"https://example.com/a"}

ShortCodes == {"k3F9", "zzzz"}

\* anything a client may put after the "/" of the redirection route
ShortUrlInputs == ShortCodes \cup LongUrls

Methods == {"GET", "POST"}

----------------------------------------------------------------------------
(* Form validators *)

USERNAME_MIN == 4

USERNAME_MAX == 36

PASSWORD_MIN == 8

PASSWORD_MAX == 16

EMAIL_MIN == 8

EMAIL_MAX == 16

\* wtforms Length(min, max), after InputRequired
Length(data, min, max) == Len(data) >= 1 /\ Len(data) >= min /\ Len(data) <= max

\* RegisterForm.validate_username builds a ValidationError and returns it;
\* wtforms ignores an inline validator's return value, so it never rejects.
validate_username(username) == TRUE

\* mutant: the username field loses its Length validator
RegisterForm_validate_mut(username, password, email) ==
    /\ Length(password, PASSWORD_MIN, PASSWORD_MAX)
    /\ Length(email, EMAIL_MIN, EMAIL_MAX)

RegisterForm_validate(username, password, email) ==
    /\ Length(username, USERNAME_MIN, USERNAME_MAX)
    /\ validate_username(username)
    /\ Length(password, PASSWORD_MIN, PASSWORD_MAX)
    /\ Length(email, EMAIL_MIN, EMAIL_MAX)

LoginForm_validate(username, password) ==
    /\ Length(username, USERNAME_MIN, USERNAME_MAX)
    /\ Length(password, PASSWORD_MIN, PASSWORD_MAX)

----------------------------------------------------------------------------
(* Password hashing (flask_bcrypt): the salt is embedded in the hash and   *)
(* verification re-hashes the candidate with that salt.                    *)

generate_password_hash(password, salt) ==
    [salt |-> salt, digest |-> <<salt, password>>]

\* mutant: the candidate is not compared with the stored hash
check_password_hash_mut(pw_hash, password) == pw_hash.salt \in Salts

check_password_hash(pw_hash, password) ==
    generate_password_hash(password, pw_hash.salt) = pw_hash

----------------------------------------------------------------------------
(* Responses *)

render_template(template) == [kind |-> "render", value |-> template]

redirect(location) == [kind |-> "redirect", value |-> location]

text_body(text) == [kind |-> "body", value |-> text]

\* an exception escaping the view: Flask answers 500
internal_server_error == [kind |-> "fault", value |-> "500"]

url_for(endpoint) ==
    CASE endpoint = "dashboard" -> "/dasboard"
      [] endpoint = "login" -> "/login"
      [] endpoint = "logout" -> "/logout"

\* login_manager.login_view = "login": an anonymous request to a
\* @login_required view is redirected to the login page
unauthorized(endpoint) ==
    redirect(IF endpoint = "dashboard" THEN "/login?next=%2Fdasboard"
                                       ELSE "/login?next=%2Flogout")

Response(op, args, result) == [op |-> op, args |-> args, result |-> result]

----------------------------------------------------------------------------
(* The User table *)

None == 0

User(id, username, password, email) ==
    [id |-> id, username |-> username, password |-> password, email |-> email]

\* autoincrement primary key
next_id == IF users = {} THEN 1
           ELSE 1 + CHOOSE i \in {x.id : x \in users} :
                        \A y \in users : y.id <= i

filter_by_username(username) == {x \in users : x.username = username}

filter_by_email(email) == {x \in users : x.email = email}

check_username(username) == filter_by_username(username) = {}

\* mutant: the email pre-check queries by username
check_email_mut(email) == filter_by_username(email) = {}

check_email(email) == filter_by_email(email) = {}

\* the constraints the User model declares: id primary key, username unique
\* (email is nullable=False only)
integrity_ok(row) ==
    /\ \A x \in users : x.id # row.id
    /\ \A x \in users : x.username # row.username

\* load_user: User.query.get(int(user_id))
load_user(user_id) == {x \in users : x.id = user_id}

is_authenticated == load_user(session_user_id) # {}

----------------------------------------------------------------------------
(* The URL mapping store, read through utility.get_long_url *)

\* Python values the lookup may return: the stored string, or False
PyStr(s) == [type |-> "str", value |-> s]

PyFalse == [type |-> "bool", value |-> "False"]

\* str(x)
str(x) == x.value

get_long_url(short_url) ==
    IF short_url \in DOMAIN url_store THEN PyStr(url_store[short_url]) ELSE PyFalse

UrlStores == {[c \in S |-> "https://example.com/a"] : S \in SUBSET {"k3F9"}}

----------------------------------------------------------------------------
Idle == [pc |-> "idle", username |-> "", password |-> "", email |-> ""]

Init ==
    /\ users = {}
    /\ session_user_id = None
    /\ url_store \in UrlStores
    /\ reg = [r \in Requests |-> Idle]
    /\ resp = Response("none", <<>>, render_template(""))
    /\ registered = {}

----------------------------------------------------------------------------
(* Handlers, one request at a time *)

NoRequestInFlight == \A r \in Requests : reg[r].pc = "idle"

\* db.session.add(new_user); db.session.commit()
commit_users(row) == IF integrity_ok(row) THEN users \cup {row} ELSE users

commit_result(row) ==
    IF integrity_ok(row) THEN redirect(url_for("login"))
    ELSE internal_server_error

\* the plaintext each stored username was registered with (history)
commit_registered(row, password) ==
    IF integrity_ok(row) THEN registered \cup {<<row.username, password>>}
    ELSE registered

\* POST /register (a GET fails validate_on_submit like an invalid form)
register(username, password, email) ==
    /\ NoRequestInFlight
    /\ IF ~RegisterForm_validate(username, password, email)
       THEN /\ resp' = Response("register", <<username, password, email>>,
                   render_template("userauth/register/register.html"))
            /\ UNCHANGED <<users, registered>>
       ELSE IF ~check_username(username)
       THEN /\ resp' = Response("register", <<username, password, email>>,
                   render_template("userauth/register/register_username_exists.html"))
            /\ UNCHANGED <<users, registered>>
       ELSE IF ~check_email(email)
       THEN /\ resp' = Response("register", <<username, password, email>>,
                   render_template("userauth/register/register_email_exists.html"))
            /\ UNCHANGED <<users, registered>>
       ELSE \E salt \in Salts :
              LET hashed_password == generate_password_hash(password, salt)
                  new_user == User(next_id, username, hashed_password, email)
              IN /\ users' = commit_users(new_user)
                 /\ registered' = commit_registered(new_user, password)
                 /\ resp' = Response("register", <<username, password, email>>,
                                     commit_result(new_user))
    /\ UNCHANGED <<session_user_id, url_store, reg>>

\* User.query.filter_by(username=..).first() or User.query.filter_by(email=..).first()
login_candidates(identifier) ==
    IF filter_by_username(identifier) # {} THEN filter_by_username(identifier)
    ELSE filter_by_email(identifier)

\* POST /login
login(identifier, password) ==
    /\ NoRequestInFlight
    /\ IF LoginForm_validate(identifier, password)
          /\ login_candidates(identifier) # {}
       THEN \E user \in login_candidates(identifier) :
              IF check_password_hash(user.password, password)
              THEN /\ session_user_id' = user.id
                   /\ resp' = Response("login", <<identifier, password>>,
                                       redirect(url_for("dashboard")))
              ELSE /\ session_user_id' = session_user_id
                   /\ resp' = Response("login", <<identifier, password>>,
                          render_template("userauth/login/login_wrong_info.html"))
       ELSE /\ session_user_id' = session_user_id
            /\ resp' = Response("login", <<identifier, password>>,
                   render_template("userauth/login/login.html"))
    /\ UNCHANGED <<users, url_store, reg, registered>>

\* mutant: the view is not @login_required
dashboard_mut ==
    /\ NoRequestInFlight
    /\ resp' = Response("dashboard", <<>>, render_template("user/dashboard.html"))
    /\ UNCHANGED <<users, session_user_id, url_store, reg, registered>>

\* /dasboard, @login_required
dashboard ==
    /\ NoRequestInFlight
    /\ resp' = Response("dashboard", <<>>,
                   IF is_authenticated
                   THEN render_template("user/dashboard.html")
                   ELSE unauthorized("dashboard"))
    /\ UNCHANGED <<users, session_user_id, url_store, reg, registered>>

\* /logout, @login_required
logout ==
    /\ NoRequestInFlight
    /\ IF is_authenticated
       THEN /\ session_user_id' = None
            /\ resp' = Response("logout", <<>>, redirect(url_for("login")))
       ELSE /\ session_user_id' = session_user_id
            /\ resp' = Response("logout", <<>>, unauthorized("logout"))
    /\ UNCHANGED <<users, url_store, reg, registered>>

\* /url
url(method, form_url) ==
    /\ NoRequestInFlight
    /\ resp' = Response("url", <<method, form_url>>,
                   IF method = "POST" THEN text_body(form_url)
                   ELSE render_template("url_page.html"))
    /\ UNCHANGED <<users, session_user_id, url_store, reg, registered>>

\* mutant: the miss is tested with a truth test on the string, not "is False"
redirection_mut(short_url) ==
    /\ NoRequestInFlight
    /\ LET long_url == get_long_url(short_url)
       IN resp' = Response("redirection", <<short_url>>,
                      IF str(long_url) = ""
                      THEN render_template("error/urlnotfound.html")
                      ELSE redirect(str(long_url)))
    /\ UNCHANGED <<users, session_user_id, url_store, reg, registered>>

\* /<short_url>
redirection(short_url) ==
    /\ NoRequestInFlight
    /\ LET long_url == get_long_url(short_url)
       IN resp' = Response("redirection", <<short_url>>,
                      IF long_url = PyFalse
                      THEN render_template("error/urlnotfound.html")
                      ELSE redirect(str(long_url)))
    /\ UNCHANGED <<users, session_user_id, url_store, reg, registered>>

----------------------------------------------------------------------------
(* register as its three store interactions, for concurrent requests *)

\* form validation and the username pre-check (lines 147-149)
register_submit(r, username, password, email) ==
    /\ reg[r].pc = "idle"
    /\ IF ~RegisterForm_validate(username, password, email)
       THEN /\ resp' = Response("register", <<username, password, email>>,
                   render_template("userauth/register/register.html"))
            /\ reg' = reg
       ELSE IF ~check_username(username)
       THEN /\ resp' = Response("register", <<username, password, email>>,
                   render_template("userauth/register/register_username_exists.html"))
            /\ reg' = reg
       ELSE /\ reg' = [reg EXCEPT ![r] = [pc |-> "check_email", username |-> username,
                                          password |-> password, email |-> email]]
            /\ resp' = resp
    /\ UNCHANGED <<users, session_user_id, url_store, registered>>

\* the email pre-check (lines 150-151)
register_check_email(r) ==
    /\ reg[r].pc = "check_email"
    /\ IF ~check_email(reg[r].email)
       THEN /\ resp' = Response("register",
                   <<reg[r].username, reg[r].password, reg[r].email>>,
                   render_template("userauth/register/register_email_exists.html"))
            /\ reg' = [reg EXCEPT ![r] = Idle]
       ELSE /\ reg' = [reg EXCEPT ![r].pc = "commit"]
            /\ resp' = resp
    /\ UNCHANGED <<users, session_user_id, url_store, registered>>

\* hash, add, commit (lines 152-156)
register_commit(r) ==
    /\ reg[r].pc = "commit"
    /\ \E salt \in Salts :
         LET hashed_password == generate_password_hash(reg[r].password, salt)
             new_user == User(next_id, reg[r].username, hashed_password, reg[r].email)
         IN /\ users' = commit_users(new_user)
            /\ registered' = commit_registered(new_user, reg[r].password)
            /\ resp' = Response("register",
                   <<reg[r].username, reg[r].password, reg[r].email>>,
                   commit_result(new_user))
    /\ reg' = [reg EXCEPT ![r] = Idle]
    /\ UNCHANGED <<session_user_id, url_store>>

----------------------------------------------------------------------------
Next ==
    \/ \E u \in Usernames, p \in Passwords, e \in Emails : register(u, p, e)
    \/ \E i \in Identifiers, p \in Passwords : login(i, p)
    \/ dashboard
    \/ logout
    \/ \E m \in Methods, l \in LongUrls : url(m, l)
    \/ \E c \in ShortUrlInputs : redirection(c)

Spec == Init /\ [][Next]_vars

ConcNext ==
    \/ \E r \in Requests, u \in Usernames, p \in Passwords, e \in Emails :
          register_submit(r, u, p, e)
    \/ \E r \in Requests : register_check_email(r)
    \/ \E r \in Requests : register_commit(r)

ConcSpec == Init /\ [][ConcNext]_vars

----------------------------------------------------------------------------
(* Vocabulary of the properties, stated on the state and the last response *)

UsernameTakenIn(table, username) == \E x \in table : x.username = username

EmailTakenIn(table, email) == \E x \in table : x.email = email

ValidRegisterArgs(args) ==
    /\ Len(args[1]) >= 4 /\ Len(args[1]) <= 36
    /\ Len(args[2]) >= 8 /\ Len(args[2]) <= 16
    /\ Len(args[3]) >= 8 /\ Len(args[3]) <= 16

ValidLoginArgs(args) ==
    /\ Len(args[1]) >= 4 /\ Len(args[1]) <= 36
    /\ Len(args[2]) >= 8 /\ Len(args[2]) <= 16

UsernameTaken == [kind |-> "render",
                  value |-> "userauth/register/register_username_exists.html"]

EmailTaken == [kind |-> "render",
               value |-> "userauth/register/register_email_exists.html"]

RegisterOk == [kind |-> "redirect", value |-> "/login"]

LoginOk == [kind |-> "redirect", value |-> "/dasboard"]

IsLoginPage(result) ==
    /\ result.kind = "redirect"
    /\ result.value \in {"/login", "/login?next=%2Fdasboard", "/login?next=%2Flogout"}

FailedLogin(r) == r.op = "login" /\ ValidLoginArgs(r.args) /\ r.result # LoginOk

----------------------------------------------------------------------------
\* C1: in every state reachable by interleaved register requests, no two
\* stored users share a username and no two stored users share an email.
C1_UniqueUsernameAndEmail ==
    \A x \in users : \A y \in users :
        x # y => x.username # y.username /\ x.email # y.email

\* C2: a register request that passes form validation, run alone, answers
\* UsernameTaken when the username is stored, else EmailTaken when the email
\* is stored, and on either rejection the stored users are unchanged; a
\* register of the username just registered answers UsernameTaken.
C2_RegisterRejections ==
    [][(resp'.op = "register" /\ ValidRegisterArgs(resp'.args)) =>
         /\ UsernameTakenIn(users, resp'.args[1]) =>
               resp'.result = UsernameTaken /\ users' = users
         /\ (~UsernameTakenIn(users, resp'.args[1])
               /\ EmailTakenIn(users, resp'.args[3])) =>
               resp'.result = EmailTaken /\ users' = users
         /\ (resp.op = "register" /\ resp.result = RegisterOk
               /\ resp'.args[1] = resp.args[1]) =>
               resp'.result = UsernameTaken]_vars

\* a second register of a stored username, with another password, was rejected
C2_Witness ==
    /\ resp.op = "register"
    /\ resp.result = UsernameTaken
    /\ \E x \in users : x.username = resp.args[1] /\ x.email # resp.args[3]
    /\ \E pair \in registered : pair[1] = resp.args[1] /\ pair[2] # resp.args[2]

\* C3: two failed logins with valid forms answer alike, whether no stored
\* user matched or the password did not verify.
C3_FailedLoginIndistinguishable ==
    [][(FailedLogin(resp) /\ FailedLogin(resp')) =>
         resp'.result = resp.result]_vars

\* C4: for a registered username u, login(u, p) redirects to the dashboard
\* with the session set to u's user exactly when p is the password given at
\* u's register; otherwise it renders a login page and the session is kept.
C4_LoginIffRegisteredPassword ==
    [][(resp'.op = "login" /\ UsernameTakenIn(users, resp'.args[1])) =>
         IF <<resp'.args[1], resp'.args[2]>> \in registered
         THEN /\ resp'.result = LoginOk
              /\ \E x \in users : x.username = resp'.args[1]
                                  /\ session_user_id' = x.id
         ELSE /\ resp'.result.kind = "render"
              /\ resp'.result.value \in {"userauth/login/login.html",
                                         "userauth/login/login_wrong_info.html"}
              /\ session_user_id' = session_user_id]_vars

\* a registered user logged in by username while another user is stored
C4_Witness ==
    /\ resp.op = "login"
    /\ resp.result = LoginOk
    /\ Cardinality(users) = 2
    /\ \E x \in users : x.username = resp.args[1] /\ x.id = session_user_id

\* C5: POST /url persists a (short_code, long_url) pair and answers a short
\* code that resolves to the submitted long URL.
C5_AllocateRoundTrip ==
    (resp.op = "url" /\ resp.args[1] = "POST") =>
        /\ resp.result.value \in DOMAIN url_store
        /\ url_store[resp.result.value] = resp.args[2]

\* C6: redirection answers a redirect to the stored long URL for a stored
\* code and the not-found page (an ordinary response) for any other code,
\* and leaves the mapping store, the user table and the session unchanged.
C6_RedirectionResolves ==
    [][resp'.op = "redirection" =>
         /\ resp'.args[1] \in DOMAIN url_store =>
               resp'.result = [kind |-> "redirect",
                               value |-> url_store[resp'.args[1]]]
         /\ resp'.args[1] \notin DOMAIN url_store =>
               resp'.result = [kind |-> "render",
                               value |-> "error/urlnotfound.html"]
         /\ UNCHANGED <<url_store, users, session_user_id>>]_vars

\* a code that was never stored was resolved, beside a stored one
C6_Witness ==
    /\ resp.op = "redirection"
    /\ url_store # <<>>
    /\ resp.args[1] \notin DOMAIN url_store
    /\ resp.result.value = "error/urlnotfound.html"

\* C7: a register whose commit violates the username constraint answers
\* UsernameTaken as an ordinary response, and exactly one user has the name.
C7_ConflictIsValidationFailure ==
    [][\A r \in Requests :
         (reg[r].pc = "commit" /\ reg'[r].pc = "idle"
            /\ UsernameTakenIn(users, reg[r].username)) =>
         /\ resp'.result = UsernameTaken
         /\ Cardinality({x \in users' : x.username = reg[r].username}) = 1]_vars

\* C8: a successful register adds exactly one record, with the submitted
\* username and email and a hash of the submitted password; no step changes
\* or removes a stored record; a register with an invalid form, and every
\* other handler, writes nothing.
C8_RegisterFrame ==
    [][/\ users \subseteq users'
       /\ (resp'.op = "register" /\ resp'.result = RegisterOk /\ resp' # resp) =>
             \E row \in users' :
                /\ row \notin users
                /\ users' = users \cup {row}
                /\ row.username = resp'.args[1]
                /\ row.email = resp'.args[3]
                /\ \E s \in Salts :
                      row.password = [salt |-> s, digest |-> <<s, resp'.args[2]>>]
       /\ (resp'.op = "register" /\ ~ValidRegisterArgs(resp'.args)) => users' = users
       /\ resp'.op # "register" => users' = users]_vars

\* a second user was registered beside the first
C8_Witness ==
    /\ resp.op = "register"
    /\ resp.result = RegisterOk
    /\ Cardinality(users) = 2
    /\ \E x \in users : x.username = resp.args[1] /\ x.id = 2

\* C9: a stored user logging in with their own email and their own password
\* is logged in as that user, whatever was registered afterwards.
C9_EmailLoginSurvives ==
    [][resp'.op = "login" =>
         \A x \in users :
            (x.email = resp'.args[1] /\ <<x.username, resp'.args[2]>> \in registered) =>
               resp'.result = LoginOk /\ session_user_id' = x.id]_vars

\* C10: the session's user is set only by a login whose password verifies
\* against that user's stored hash and cleared only by logout; register, a
\* failed login, url and redirection keep it; the dashboard is rendered only
\* with a current user; dashboard and logout without one answer the login
\* page and change nothing; logout leaves no current user.
C10_SessionLifecycle ==
    [][/\ (session_user_id' # session_user_id /\ session_user_id' # 0) =>
             /\ resp'.op = "login"
             /\ resp'.result = LoginOk
             /\ \E x \in users :
                   /\ x.id = session_user_id'
                   /\ x.password.digest = <<x.password.salt, resp'.args[2]>>
       /\ (session_user_id # 0 /\ session_user_id' = 0) => resp'.op = "logout"
       /\ (resp'.op \in {"register", "url", "redirection", "dashboard"}
             \/ (resp'.op = "login" /\ resp'.result # LoginOk)) =>
             session_user_id' = session_user_id
       /\ (resp'.op = "dashboard" /\ resp'.result.kind = "render") =>
             /\ session_user_id # 0
             /\ resp'.result.value = "user/dashboard.html"
       /\ (resp'.op \in {"dashboard", "logout"} /\ session_user_id = 0) =>
             /\ IsLoginPage(resp'.result)
             /\ UNCHANGED <<users, session_user_id, url_store>>
       /\ resp'.op = "logout" => session_user_id' = 0]_vars

\* a logged-in user logged out
C10_Witness ==
    /\ resp.op = "logout"
    /\ resp.result = [kind |-> "redirect", value |-> "/login"]
    /\ session_user_id = 0
    /\ users # {}

====
